---- MODULE Spec2Model ----
(***************************************************************************)
(* Model of monitor.py: the snapshot reconciliation and notification       *)
(* throttling of the class-availability monitor.                           *)
(*                                                                         *)
(* Text values that the program inspects character by character (seat      *)
(* text, location, NRC) are tuples of one-character strings; text that is  *)
(* only compared for equality (time, instructor, course, query label) is a *)
(* TLA+ string.  Python's None is the empty tuple << >> and an int n that  *)
(* may be None is << n >>.                                                 *)
(***************************************************************************)
EXTENDS Integers, Sequences, FiniteSets, TLC

VARIABLES
    stateFile,      \* content of state.json (STATE)
    metaFile,       \* content of notify_state.json (META)
    clock,          \* last value read from time.time()
    pc,             \* position of the running process
    source,         \* what the Row Source did in this run
    all_rows,       \* main: all_rows after the location filter and the marking loop
    new_state,      \* main: new_state
    old_state,      \* main: old_state as loaded
    meta,           \* main: meta as loaded and then mutated
    added,          \* main: added
    removed,        \* main: removed
    changed,        \* main: changed, pairs <<old, new>>
    any_change,     \* main: any_change
    should_notify,  \* main: should_notify
    now,            \* main: now
    message,        \* main: header, per-query listing, added/removed lines
    tg_result,      \* what notify() did: "not_called", "sent", "failed", "printed"
    exit_status,    \* "none", "running", "ok", "error", "killed"
    storeBefore,    \* content of state.json when the run started
    metaBefore,     \* content of notify_state.json when the run started
    metaLoaded,     \* meta as returned by load_json, before main mutates it
    lastSaved,      \* << >> or << snapshot >> written by the last completed run
    observed        \* << >> or << value >> another process got from load_json(STATE)

vars == << stateFile, metaFile, clock, pc, source, all_rows, new_state, old_state,
           meta, added, removed, changed, any_change, should_notify, now,
           message, tg_result, exit_status, storeBefore, metaBefore, metaLoaded,
           lastSaved, observed >>

None == << >>

(***************************************************************************)
(* Bounds of the model.                                                    *)
(***************************************************************************)
MaxRows == 1        \* rows the Row Source yields per run (state machine)
MaxDiffRows == 2    \* rows per snapshot in the diff specification
MaxHours == 1       \* clock readings lie around 1..MaxHours intervals
MaxRepeatHours == 2 \* a repeated run is at most this many intervals late

(***************************************************************************)
(* Characters.                                                             *)
(***************************************************************************)
Digit == {"0", "1", "2", "3", "4", "5", "6", "7", "8", "9"}

Space == {" ", "\t"}

DigitVal(c) ==
    CASE c = "0" -> 0 [] c = "1" -> 1 [] c = "2" -> 2 [] c = "3" -> 3
      [] c = "4" -> 4 [] c = "5" -> 5 [] c = "6" -> 6 [] c = "7" -> 7
      [] c = "8" -> 8 [] c = "9" -> 9

\* int(str) for a non-empty run of decimal digits
RECURSIVE IntOf(_)
IntOf(ds) ==
    IF ds = << >> THEN 0
    ELSE 10 * IntOf(SubSeq(ds, 1, Len(ds) - 1)) + DigitVal(ds[Len(ds)])

\* str.lower() on one character (ASCII letters)
LowerChar(c) ==
    CASE c = "A" -> "a" [] c = "B" -> "b" [] c = "C" -> "c" [] c = "D" -> "d"
      [] c = "E" -> "e" [] c = "F" -> "f" [] c = "G" -> "g" [] c = "H" -> "h"
      [] c = "I" -> "i" [] c = "J" -> "j" [] c = "K" -> "k" [] c = "L" -> "l"
      [] c = "M" -> "m" [] c = "N" -> "n" [] c = "O" -> "o" [] c = "P" -> "p"
      [] c = "Q" -> "q" [] c = "R" -> "r" [] c = "S" -> "s" [] c = "T" -> "t"
      [] c = "U" -> "u" [] c = "V" -> "v" [] c = "W" -> "w" [] c = "X" -> "x"
      [] c = "Y" -> "y" [] c = "Z" -> "z" [] OTHER -> c

Lower(s) == [i \in 1..Len(s) |-> LowerChar(s[i])]

\* Python's `needle in hay` on strings
Contains(hay, needle) ==
    \E i \in 1..(Len(hay) - Len(needle) + 1) :
        SubSeq(hay, i, i + Len(needle) - 1) = needle

\* first index >= i whose character is outside class, Len(s)+1 if none
RECURSIVE RunEnd(_, _, _)
RunEnd(s, i, class) ==
    IF i > Len(s) \/ s[i] \notin class THEN i ELSE RunEnd(s, i + 1, class)

(***************************************************************************)
(* parse_open_seats: re.search(r'(\d+)\s+of\s+\d+', text, re.I), group 1.  *)
(***************************************************************************)
\* the pattern matches with group 1 starting at index i
SeatsMatchAt(s, i) ==
    /\ s[i] \in Digit
    /\ LET j == RunEnd(s, i, Digit)
           k == RunEnd(s, j, Space)
           l == k + 2
           m == RunEnd(s, l, Space)
       IN  /\ k > j
           /\ k + 1 <= Len(s)
           /\ LowerChar(s[k]) = "o"
           /\ LowerChar(s[k + 1]) = "f"
           /\ m > l
           /\ m <= Len(s)
           /\ s[m] \in Digit

parse_open_seats(seats_text) ==
    IF seats_text = << >> THEN None
    ELSE LET starts == {i \in 1..Len(seats_text) : SeatsMatchAt(seats_text, i)}
         IN  IF starts = {} THEN None
             ELSE LET i == CHOOSE x \in starts : \A y \in starts : x <= y
                  IN  << IntOf(SubSeq(seats_text, i, RunEnd(seats_text, i, Digit) - 1)) >>

(***************************************************************************)
(* Config (module level of monitor.py).                                    *)
(***************************************************************************)
\* os.getenv("LOCATION_EXCLUDE", "ASU Online").strip().lower() or None
LOCATION_EXCLUDE == Lower(<< "A", "S", "U", " ", "O", "n", "l", "i", "n", "e" >>)

NOCHANGE_NOTIFY_INTERVAL_SEC == 3600

(***************************************************************************)
(* Rows.  A row is the dict built by the extractors plus "_query"; the     *)
(* four "_open_now", "_delta", "_status", "_update" keys exist only once   *)
(* the marking loop of main has visited the row (marked = TRUE).           *)
(***************************************************************************)
Row(nrc, course, seats, time, loc, instr, query) ==
    [nrc |-> nrc, course |-> course, seats |-> seats, time |-> time, loc |-> loc,
     instr |-> instr, query |-> query,
     marked |-> FALSE, open_now |-> None, delta |-> None, status |-> "", update |-> ""]

\* json.dumps(row, sort_keys=True): the items of the dict in ascending key order
RowItems(r) ==
    (IF r.marked
       THEN << << "_delta", r.delta >>, << "_open_now", r.open_now >> >>
       ELSE << >>)
    \o << << "_query", << r.query >> >> >>
    \o (IF r.marked
          THEN << << "_status", << r.status >> >>, << "_update", << r.update >> >> >>
          ELSE << >>)
    \o << << "course", << r.course >> >>, << "instr", << r.instr >> >>,
          << "loc", r.loc >>, << "nrc", r.nrc >>, << "seats", r.seats >>,
          << "time", << r.time >> >> >>

\* json.dumps(rows, ensure_ascii=False, sort_keys=True): a JSON array keeps list order
JsonDumps(rows) == [i \in 1..Len(rows) |-> RowItems(rows[i])]

\* hashlib.sha256(...).hexdigest(): a digest that identifies the bytes it was given
Sha256(bytes) == << bytes >>

hash_rows(rows) == Sha256(JsonDumps(rows))

(***************************************************************************)
(* Files and JSON values.                                                  *)
(***************************************************************************)
\* a JSON value found in state.json: an object (with or without "rows") or a list
StateJson(type, has_rows, hash, rows, ts) ==
    [type |-> type, has_rows |-> has_rows, hash |-> hash, rows |-> rows, ts |-> ts]

\* a JSON value found in notify_state.json
MetaJson(type, has_ts, ts) ==
    [type |-> type, has_ts |-> has_ts, last_nochange_ts |-> ts]

NoState == StateJson("none", FALSE, None, << >>, None)

NoMeta == MetaJson("none", FALSE, 0)

\* the defaults main passes to load_json
DefaultState == StateJson("object", TRUE, None, << >>, None)

DefaultMeta == MetaJson("object", TRUE, 0)

\* file contents: no file, bytes that are no JSON document, a file opened for
\* writing and not yet closed (truncated, maybe a prefix written), a JSON document
AbsentFile(blank) == [kind |-> "absent", val |-> blank]

InvalidFile(blank) == [kind |-> "invalid", val |-> blank]

PartialFile(blank) == [kind |-> "partial", val |-> blank]

JsonFile(data) == [kind |-> "json", val |-> data]

\* open() or json.load() raises on anything but a JSON document: default
load_json(file, default) ==
    IF file.kind = "json" THEN file.val ELSE default

\* old_state.get("rows", [])
GetRows(state) == IF state.has_rows THEN state.rows ELSE << >>

\* meta.get("last_nochange_ts", 0)
GetLastPing(m) == IF m.has_ts THEN m.last_nochange_ts ELSE 0

(***************************************************************************)
(* The diff of main.                                                       *)
(***************************************************************************)
\* {r.get("nrc"): r for r in rows if r.get("nrc")}: the last row of a key wins
RowMap(rows) ==
    LET keys == {rows[i].nrc : i \in 1..Len(rows)} \ {<< >>}
    IN  [k \in keys |->
            rows[CHOOSE i \in 1..Len(rows) :
                    /\ rows[i].nrc = k
                    /\ \A j \in 1..Len(rows) : rows[j].nrc = k => j <= i]]

\* variant: every key of new_map, not only the keys missing from old_map
Added_allNew(old_map, new_map) ==
    {new_map[k] : k \in DOMAIN new_map}

Added(old_map, new_map) ==
    {new_map[k] : k \in DOMAIN new_map \ DOMAIN old_map}

Removed(old_map, new_map) ==
    {old_map[k] : k \in DOMAIN old_map \ DOMAIN new_map}

\* variant: compares the parsed open-seat count instead of the seats text
Compared_parsedSeats(r) == << parse_open_seats(r.seats), r.time, r.loc, r.instr >>

Compared_wholeRow(r) == r

\* the tuple compared at line 464
Compared(r) == << r.seats, r.time, r.loc, r.instr >>

Changed(old_map, new_map) ==
    {<< old_map[k], new_map[k] >> :
        k \in {x \in DOMAIN new_map \cap DOMAIN old_map :
                  Compared(old_map[x]) # Compared(new_map[x])}}

\* variant: changed records do not count
AnyChange_ignoresChanged(a, r, c) == a # {} \/ r # {}

\* bool(added or removed or changed)
AnyChange(a, r, c) == a # {} \/ r # {} \/ c # {}

\* the body of the marking loop for one row of new_map
MarkRow(row, old_map) ==
    LET open_now == parse_open_seats(row.seats)
        open_prev == IF row.nrc \in DOMAIN old_map
                       THEN parse_open_seats(old_map[row.nrc].seats)
                       ELSE None
        delta == IF open_now # None /\ open_prev # None
                   THEN << open_now[1] - open_prev[1] >>
                   ELSE None
        status == IF open_now # None /\ open_now[1] > 0 THEN "green" ELSE "red"
        update == IF delta # None /\ delta[1] # 0 THEN "orange" ELSE ""
    IN  [row EXCEPT !.marked = TRUE, !.open_now = open_now, !.delta = delta,
                    !.status = status, !.update = update]

\* the loop mutates the dicts new_map holds, which are the last row of each
\* non-empty key in new_state["rows"]
MarkRows(rows, old_map) ==
    [i \in 1..Len(rows) |->
        IF /\ rows[i].nrc # << >>
           /\ \A j \in 1..Len(rows) : rows[j].nrc = rows[i].nrc => j <= i
          THEN MarkRow(rows[i], old_map)
          ELSE rows[i]]

\* [r for r in all_rows if LOCATION_EXCLUDE not in r.get("loc","").lower()]
FilterRows(rows) ==
    IF LOCATION_EXCLUDE # << >>
      THEN SelectSeq(rows, LAMBDA r : ~Contains(Lower(r.loc), LOCATION_EXCLUDE))
      ELSE rows

(***************************************************************************)
(* The notification policy of main and notify().                           *)
(***************************************************************************)
\* variant: the interval must be exceeded, not reached
ShouldNotify_strict(any, t, m) ==
    any \/ (t - GetLastPing(m) > NOCHANGE_NOTIFY_INTERVAL_SEC)

ShouldNotify(any, t, m) ==
    any \/ (t - GetLastPing(m) >= NOCHANGE_NOTIFY_INTERVAL_SEC)

\* meta["last_nochange_ts"] = now, done on both branches that notify
MetaAfter(any, t, m) ==
    IF ShouldNotify(any, t, m)
      THEN [m EXCEPT !.has_ts = TRUE, !.last_nochange_ts = t]
      ELSE m

\* variant: the exception of urlopen is not caught
notify_reraises(tg) ==
    [result |-> CASE tg = "ok" -> "sent"
                  [] tg = "fail" -> "failed"
                  [] OTHER -> "printed",
     raised |-> tg = "fail"]

\* notify(text) with the Telegram outcome tg: "ok", "fail" (urlopen raises or
\* times out), "unconfigured" (no token or chat id)
notify(tg) ==
    [result |-> CASE tg = "ok" -> "sent"
                  [] tg = "fail" -> "failed"
                  [] OTHER -> "printed",
     raised |-> FALSE]

(***************************************************************************)
(* The message of main: header, rows grouped by query and sorted, then the *)
(* added and removed lines.                                                *)
(***************************************************************************)
\* ord() of the characters an NRC is made of
CharCode(c) == IF c \in Digit THEN 48 + DigitVal(c) ELSE 0

\* a < b for Python str
RECURSIVE StrLess(_, _)
StrLess(a, b) ==
    IF b = << >> THEN FALSE
    ELSE IF a = << >> THEN TRUE
    ELSE IF CharCode(Head(a)) # CharCode(Head(b))
           THEN CharCode(Head(a)) < CharCode(Head(b))
           ELSE StrLess(Tail(a), Tail(b))

\* x.get("_open_now") or -1: None and 0 are both falsy
OpenOrMinusOne(x) ==
    IF x.open_now = None \/ x.open_now[1] = 0 THEN -1 ELSE x.open_now[1]

\* the sort key (-(x.get("_open_now") or -1), str(x.get("nrc","")))
SortKey(x) == << -OpenOrMinusOne(x), x.nrc >>

\* tuple comparison of two sort keys
KeyLess(k1, k2) ==
    k1[1] < k2[1] \/ (k1[1] = k2[1] /\ StrLess(k1[2], k2[2]))

\* sorted(rows, key=...): stable, equal keys keep the order of the input
RECURSIVE Sorted(_)
Sorted(rows) ==
    IF rows = << >> THEN << >>
    ELSE LET front == Sorted(SubSeq(rows, 1, Len(rows) - 1))
             x == rows[Len(rows)]
             n == Cardinality({i \in 1..Len(front) :
                                  ~KeyLess(SortKey(x), SortKey(front[i]))})
         IN  SubSeq(front, 1, n) \o << x >> \o SubSeq(front, n + 1, Len(front))

\* the keys of by_query in insertion order: each query at its first row
QueryKeys(rows) ==
    LET first == {i \in 1..Len(rows) : \A j \in 1..(i - 1) : rows[j].query # rows[i].query}
        nth[n \in 1..Cardinality(first)] ==
            CHOOSE i \in first : Cardinality({j \in first : j <= i}) = n
    IN  [n \in 1..Cardinality(first) |-> rows[nth[n]].query]

\* by_query[qkey]: the rows of a query in list order
QueryGroup(rows, qkey) == SelectSeq(rows, LAMBDA r : r.query = qkey)

\* added[:6], removed[:6]
FirstSix(S) ==
    IF Cardinality(S) <= 6 THEN S
    ELSE CHOOSE T \in SUBSET S : Cardinality(T) = 6

\* each listed row becomes one line made of its status, update, NRC, course,
\* seats, delta, location, time and instructor
Message(rows, any, a, r) ==
    [header |-> IF any THEN "CHANGES" ELSE "Hourly check (no changes)",
     groups |-> LET qs == QueryKeys(rows)
                IN  [n \in 1..Len(qs) |->
                        [qkey |-> qs[n], rows_sorted |-> Sorted(QueryGroup(rows, qs[n]))]],
     new |-> {<< x.nrc, x.course >> : x \in FirstSix(a)},
     gone |-> {<< x.nrc, x.course >> : x \in FirstSix(r)}]

NoMessage == [header |-> "", groups |-> << >>, new |-> {}, gone |-> {}]

(***************************************************************************)
(* Inputs: the rows the Row Source may yield, the clock, the Notifier.     *)
(***************************************************************************)
S_0of30 == << "0", " ", "o", "f", " ", "3", "0" >>

S_2of30 == << "2", " ", "o", "f", " ", "3", "0" >>

S_2of40 == << "2", " ", "o", "f", " ", "4", "0" >>

S_10of40 == << "1", "0", " ", "O", "f", " ", "4", "0" >>

S_7of40 == << "7", " ", " ", "o", "f", " ", "4", "0" >>

S_5of20 == << "5", " ", "o", "f", " ", "2", "0" >>

S_Full == << "F", "u", "l", "l" >>

L_Tempe == << "T", "e", "m", "p", "e" >>

L_Poly == << "P", "o", "l", "y" >>

L_Online == << "@", "A", "S", "U", " ", "O", "n", "l", "i", "n", "e" >>

NRC_A == << "7", "1" >>

NRC_B == << "7", "2" >>

NRC_C == << "9" >>

Q1 == "CSE412-Spring 2026"

rowA0 == Row(NRC_A, "CSE 412", S_0of30, "9:00 AM", L_Tempe, "Lee", Q1)

rowA2 == Row(NRC_A, "CSE 412", S_2of30, "9:00 AM", L_Tempe, "Lee", Q1)

rowA2of40 == Row(NRC_A, "CSE 412", S_2of40, "9:00 AM", L_Tempe, "Lee", Q1)

rowA2Poly == Row(NRC_A, "CSE 412", S_2of30, "9:00 AM", L_Poly, "Lee", Q1)

rowB10 == Row(NRC_B, "CSE 412", S_10of40, "1:30 PM", L_Tempe, "Kim", Q1)

rowB7 == Row(NRC_B, "CSE 412", S_7of40, "1:30 PM", L_Tempe, "Kim", Q1)

rowNoKey == Row(<< >>, "CSE 412", S_Full, "", L_Tempe, "", Q1)

rowOnline == Row(NRC_C, "CSE 412", S_5of20, "", L_Online, "Kim", Q1)

RunPool == {rowA0, rowA2, rowOnline}

DiffPool == {rowA0, rowA2, rowA2of40, rowA2Poly, rowB10, rowB7, rowNoKey}

SeqsUpTo(S, n) == UNION {[1..k -> S] : k \in 0..n}

\* the Row Source either raises (filters not applied after all tries, a browser
\* error) or yields the rows of all queries; queries skipped as invalid yield none
Raise == [kind |-> "raise", rows |-> << >>]

Yield(rows) == [kind |-> "rows", rows |-> rows]

NoSource == [kind |-> "none", rows |-> << >>]

RunSources == {Raise} \cup {Yield(s) : s \in SeqsUpTo(RunPool, MaxRows)}

DiffSources == {Yield(s) : s \in SeqsUpTo(DiffPool, MaxDiffRows)}

\* readings of int(time.time()): one second either side of each interval boundary
Times ==
    {h * NOCHANGE_NOTIFY_INTERVAL_SEC + d : h \in 1..MaxHours, d \in {-1, 0, 1}}

TgOutcomes == {"ok", "fail", "unconfigured"}

(***************************************************************************)
(* main(), from the collection loop to the notify call: everything it      *)
(* computes from the two files, the Row Source, the clock and the Notifier.*)
(***************************************************************************)
MainResult(stFile, mtFile, src, t, tg) ==
    LET rows == FilterRows(src.rows)
        os == load_json(stFile, DefaultState)
        m == load_json(mtFile, DefaultMeta)
        old_map == RowMap(GetRows(os))
        new_map == RowMap(rows)
        a == Added(old_map, new_map)
        r == Removed(old_map, new_map)
        c == Changed(old_map, new_map)
        any == AnyChange(a, r, c)
        send == ShouldNotify(any, t, m)
        \* exceptions before the notify call: RuntimeError in the collection
        \* loop, AttributeError of old_state.get, AttributeError or TypeError
        \* of meta.get / meta[...] = now when the JSON value is no object
        early == src.kind = "raise" \/ os.type # "object" \/ m.type # "object"
        sent == IF ~early /\ send
                  THEN notify(tg)
                  ELSE [result |-> "not_called", raised |-> FALSE]
    IN  [raises |-> early \/ sent.raised,
         new_state |-> StateJson("object", TRUE, hash_rows(rows),
                                 MarkRows(rows, old_map), << t >>),
         old_state |-> os,
         metaLoaded |-> m,
         meta |-> MetaAfter(any, t, m),
         added |-> a, removed |-> r, changed |-> c,
         any_change |-> any,
         should_notify |-> send,
         message |-> Message(MarkRows(rows, old_map), any, a, r),
         tg_result |-> sent.result]

(***************************************************************************)
(* The state machine.                                                      *)
(***************************************************************************)
StateFiles ==
    {AbsentFile(NoState), InvalidFile(NoState),
     JsonFile(StateJson("list", FALSE, None, << >>, None)),
     JsonFile(StateJson("object", FALSE, None, << >>, None))}

MetaFiles ==
    {AbsentFile(NoMeta), InvalidFile(NoMeta),
     JsonFile(MetaJson("list", FALSE, 0)),
     JsonFile(MetaJson("object", FALSE, 0))}

\* the variables of one run, before main has computed anything
RunBlank ==
    /\ source = NoSource
    /\ all_rows = << >>
    /\ new_state = NoState
    /\ old_state = NoState
    /\ meta = NoMeta
    /\ metaLoaded = NoMeta
    /\ added = {}
    /\ removed = {}
    /\ changed = {}
    /\ any_change = FALSE
    /\ should_notify = FALSE
    /\ now = 0
    /\ message = NoMessage
    /\ tg_result = "not_called"
    /\ exit_status = "none"
    /\ storeBefore = AbsentFile(NoState)
    /\ metaBefore = AbsentFile(NoMeta)
    /\ observed = << >>

Init ==
    /\ stateFile \in StateFiles
    /\ metaFile \in MetaFiles
    /\ clock = 0
    /\ pc = "idle"
    /\ lastSaved = << >>
    /\ RunBlank

\* run() -> main() up to and including `if should_notify: notify(message)`;
\* an exception ends in run()'s handler: sys.exit(1), no file written
RunMain(src, t, tg) ==
    /\ pc = "idle"
    /\ t >= clock
    /\ clock' = t
    /\ source' = src
    /\ storeBefore' = stateFile
    /\ metaBefore' = metaFile
    /\ observed' = << >>
    /\ UNCHANGED << stateFile, metaFile, lastSaved >>
    /\ \E res \in {MainResult(stateFile, metaFile, src, t, tg)} :
           IF res.raises
             THEN /\ pc' = "failed"
                  /\ exit_status' = "error"
                  /\ all_rows' = << >>
                  /\ new_state' = NoState
                  /\ old_state' = NoState
                  /\ meta' = NoMeta
                  /\ metaLoaded' = NoMeta
                  /\ added' = {}
                  /\ removed' = {}
                  /\ changed' = {}
                  /\ any_change' = FALSE
                  /\ should_notify' = FALSE
                  /\ now' = 0
                  /\ message' = NoMessage
                  /\ tg_result' = res.tg_result
             ELSE /\ pc' = "save_state"
                  /\ exit_status' = "running"
                  /\ all_rows' = res.new_state.rows
                  /\ new_state' = res.new_state
                  /\ old_state' = res.old_state
                  /\ meta' = res.meta
                  /\ metaLoaded' = res.metaLoaded
                  /\ added' = res.added
                  /\ removed' = res.removed
                  /\ changed' = res.changed
                  /\ any_change' = res.any_change
                  /\ should_notify' = res.should_notify
                  /\ now' = t
                  /\ message' = res.message
                  /\ tg_result' = res.tg_result

Run ==
    \E src \in RunSources, t \in Times, tg \in TgOutcomes : RunMain(src, t, tg)

RunVars == << source, all_rows, new_state, old_state, meta, metaLoaded, added,
              removed, changed, any_change, should_notify, now, message, tg_result,
              storeBefore, metaBefore >>

\* save_json(STATE, new_state): open(path, "w") truncates the file
SaveOpenState ==
    /\ pc = "save_state"
    /\ stateFile' = PartialFile(NoState)
    /\ pc' = "write_state"
    /\ UNCHANGED << metaFile, clock, RunVars, exit_status, lastSaved, observed >>

\* variant: the snapshot is written only when a notification was due
SaveWriteState_onlyWhenNotified ==
    /\ pc = "write_state"
    /\ stateFile' = IF should_notify THEN JsonFile(new_state) ELSE storeBefore
    /\ pc' = "save_meta"
    /\ UNCHANGED << metaFile, clock, RunVars, exit_status, lastSaved, observed >>

\* save_json(STATE, new_state): json.dump and the close of the with block
SaveWriteState ==
    /\ pc = "write_state"
    /\ stateFile' = JsonFile(new_state)
    /\ pc' = "save_meta"
    /\ UNCHANGED << metaFile, clock, RunVars, exit_status, lastSaved, observed >>

\* save_json(META, meta): open(path, "w")
SaveOpenMeta ==
    /\ pc = "save_meta"
    /\ metaFile' = PartialFile(NoMeta)
    /\ pc' = "write_meta"
    /\ UNCHANGED << stateFile, clock, RunVars, exit_status, lastSaved, observed >>

\* save_json(META, meta): json.dump and close; main returns
SaveWriteMeta ==
    /\ pc = "write_meta"
    /\ metaFile' = JsonFile(meta)
    /\ pc' = "done"
    /\ exit_status' = "ok"
    /\ lastSaved' = << new_state >>
    /\ observed' = << >>
    /\ UNCHANGED << stateFile, clock, RunVars >>

\* the process is killed while it saves: what it wrote so far stays on disk
Crash ==
    /\ pc \in {"save_state", "write_state", "save_meta", "write_meta"}
    /\ pc' = "killed"
    /\ exit_status' = "killed"
    /\ lastSaved' = << >>
    /\ observed' = << >>
    /\ UNCHANGED << stateFile, metaFile, clock, RunVars >>

\* another process runs load_json(STATE, ...) while this one saves
ReaderLoad ==
    /\ pc \in {"save_state", "write_state", "save_meta", "write_meta"}
    /\ observed = << >>
    /\ observed' = << load_json(stateFile, DefaultState) >>
    /\ UNCHANGED << stateFile, metaFile, clock, pc, RunVars, exit_status, lastSaved >>

\* the process is gone; the scheduler may start the next run
Exit ==
    /\ pc \in {"done", "failed", "killed"}
    /\ pc' = "idle"
    /\ source' = NoSource
    /\ all_rows' = << >>
    /\ new_state' = NoState
    /\ old_state' = NoState
    /\ meta' = NoMeta
    /\ metaLoaded' = NoMeta
    /\ added' = {}
    /\ removed' = {}
    /\ changed' = {}
    /\ any_change' = FALSE
    /\ should_notify' = FALSE
    /\ now' = 0
    /\ message' = NoMessage
    /\ tg_result' = "not_called"
    /\ exit_status' = "none"
    /\ storeBefore' = AbsentFile(NoState)
    /\ metaBefore' = AbsentFile(NoMeta)
    /\ observed' = << >>
    /\ UNCHANGED << stateFile, metaFile, clock, lastSaved >>

\* runs one at a time, each left to finish (the external scheduler serializes)
Next ==
    \/ Run
    \/ SaveOpenState
    \/ SaveWriteState
    \/ SaveOpenMeta
    \/ SaveWriteMeta
    \/ Exit

Spec == Init /\ [][Next]_vars

\* the same runs, with the process killed while saving and a second process
\* reading state.json meanwhile
NextSave ==
    \/ Run
    \/ SaveOpenState
    \/ SaveWriteState
    \/ SaveOpenMeta
    \/ SaveWriteMeta
    \/ Crash
    \/ ReaderLoad
    \/ Exit

SpecSave == Init /\ [][NextSave]_vars

(***************************************************************************)
(* The diff as a function of two snapshots: the store holds what a first   *)
(* run from a fresh start saved, and main runs once more on new rows.      *)
(***************************************************************************)
FirstRun(src) ==
    MainResult(AbsentFile(NoState), AbsentFile(NoMeta), src,
               NOCHANGE_NOTIFY_INTERVAL_SEC, "ok")

InitDiff ==
    /\ \E src \in DiffSources : \E res \in {FirstRun(src)} :
          /\ stateFile = JsonFile(res.new_state)
          /\ metaFile = JsonFile(res.meta)
          /\ lastSaved = << res.new_state >>
    /\ clock = NOCHANGE_NOTIFY_INTERVAL_SEC
    /\ pc = "idle"
    /\ RunBlank

DiffRun ==
    \E src \in DiffSources : RunMain(src, NOCHANGE_NOTIFY_INTERVAL_SEC, "ok")

NextDiff == DiffRun

SpecDiff == InitDiff /\ [][NextDiff]_vars

(***************************************************************************)
(* Two consecutive runs: the store holds the first run's snapshot and      *)
(* checkpoint (last ping at one interval); the second run happens either   *)
(* at once or some intervals later.                                        *)
(***************************************************************************)
\* the rows of the two runs: one key with two seat texts, a second key, and a
\* row without key
RepeatPool == {rowA0, rowA2, rowB10, rowNoKey}

RepeatSources == {Yield(s) : s \in SeqsUpTo(RepeatPool, MaxDiffRows)}

RepeatTimes ==
    {NOCHANGE_NOTIFY_INTERVAL_SEC, NOCHANGE_NOTIFY_INTERVAL_SEC * MaxRepeatHours}

InitRepeat ==
    /\ \E src \in RepeatSources : \E res \in {FirstRun(src)} :
          /\ stateFile = JsonFile(res.new_state)
          /\ metaFile = JsonFile(res.meta)
          /\ lastSaved = << res.new_state >>
    /\ clock = NOCHANGE_NOTIFY_INTERVAL_SEC
    /\ pc = "idle"
    /\ RunBlank

RepeatRun ==
    \E src \in RepeatSources, t \in RepeatTimes : RunMain(src, t, "ok")

NextRepeat == RepeatRun

SpecRepeat == InitRepeat /\ [][NextRepeat]_vars

(***************************************************************************)
(* Properties.                                                             *)
(***************************************************************************)
\* the records a load of the file yields
StoredRows(file) == GetRows(load_json(file, DefaultState))

\* the non-empty keys of a list of rows, and the row a key maps to
KeysOf(rows) == {rows[i].nrc : i \in 1..Len(rows)} \ {<< >>}

LastRow(rows, k) ==
    rows[CHOOSE i \in 1..Len(rows) :
            rows[i].nrc = k /\ \A j \in (i + 1)..Len(rows) : rows[j].nrc # k]

\* a row without the keys the marking loop adds
Unmark(r) ==
    [r EXCEPT !.marked = FALSE, !.open_now = None, !.delta = None,
              !.status = "", !.update = ""]

\* C1 (as claimed): when the Row Source raises or the run has no usable rows
\* (none collected, or all removed by the location filter), the records in the
\* snapshot store after the run are the records it held before the run.
C1_FatalPathInvariant ==
    (\/ pc = "failed" /\ source.kind = "raise"
     \/ pc = "done" /\ all_rows = << >>)
    => StoredRows(stateFile) = StoredRows(storeBefore)

\* C2: in every completed run should_notify = any_change or the interval has
\* elapsed since the checkpoint read at run start, and the checkpoint persisted
\* is now when should_notify holds and the checkpoint as read otherwise.
C2_NotificationDecision ==
    pc = "done" =>
        /\ should_notify =
              (any_change \/ now - GetLastPing(load_json(metaBefore, DefaultMeta))
                                 >= NOCHANGE_NOTIFY_INTERVAL_SEC)
        /\ metaFile.kind = "json"
        /\ IF should_notify
             THEN metaFile.val.has_ts /\ metaFile.val.last_nochange_ts = now
             ELSE metaFile.val = load_json(metaBefore, DefaultMeta)

\* a no-change run one second short of the interval: nothing sent, checkpoint kept
C2_Witness ==
    /\ pc = "done"
    /\ ~any_change
    /\ metaBefore.kind = "json"
    /\ now - GetLastPing(metaBefore.val) = NOCHANGE_NOTIFY_INTERVAL_SEC - 1
    /\ ~should_notify
    /\ metaFile = metaBefore

\* the trigger policy of the claim: zero-to-positive, or a drop of at least 5
IsNotable(pair) ==
    LET prev == parse_open_seats(pair[1].seats)
        cur == parse_open_seats(pair[2].seats)
    IN  /\ prev # None
        /\ cur # None
        /\ \/ prev[1] = 0 /\ cur[1] > 0
           \/ prev[1] - cur[1] >= 5

\* C3 (as claimed): any_change = added non-empty or removed non-empty or some
\* changed record is notable (zero-to-positive, or a seat drop of at least the
\* threshold, here 5).
C3_TriggerPolicy ==
    pc = "save_state" =>
        any_change = (added # {} \/ removed # {} \/ \E p \in changed : IsNotable(p))

\* C3 (amended): any_change holds exactly when the previous and the current
\* snapshot differ in their key sets or in the (seats text, time, location,
\* instructor) of a common key; every such run notifies at once.
C3_AnyDifferenceTriggers ==
    pc = "save_state" =>
        LET old == GetRows(old_state)
        IN  /\ any_change =
                  (\/ KeysOf(old) # KeysOf(all_rows)
                   \/ \E k \in KeysOf(old) \cap KeysOf(all_rows) :
                         \/ LastRow(old, k).seats # LastRow(all_rows, k).seats
                         \/ LastRow(old, k).time # LastRow(all_rows, k).time
                         \/ LastRow(old, k).loc # LastRow(all_rows, k).loc
                         \/ LastRow(old, k).instr # LastRow(all_rows, k).instr)
            /\ any_change => should_notify

\* a run whose only differences are changes the claimed policy calls not notable
C3_Witness ==
    /\ pc = "save_state"
    /\ added = {}
    /\ removed = {}
    /\ changed # {}
    /\ \A p \in changed : ~IsNotable(p)
    /\ any_change
    /\ should_notify

\* the orderings of a list
PermsOf(rows) ==
    {[i \in 1..Len(rows) |-> rows[f[i]]] :
        f \in {g \in [1..Len(rows) -> 1..Len(rows)] :
                  \A a, b \in 1..Len(rows) : g[a] = g[b] => a = b}}

\* C4 (as claimed): the content hash of the snapshot is the same for every
\* order in which the same records are collected.
C4_HashOrderIndependent ==
    pc = "save_state" =>
        \A p \in PermsOf(FilterRows(source.rows)) : hash_rows(p) = new_state.hash

\* C5: every non-empty key of the two snapshots is in exactly one of added,
\* removed, changed, unchanged.
C5_DiffCompleteness ==
    pc = "save_state" =>
        LET old == GetRows(old_state)
            oldK == KeysOf(old)
            newK == KeysOf(all_rows)
            A == {r.nrc : r \in added}
            R == {r.nrc : r \in removed}
            C == {p[2].nrc : p \in changed}
            U == {k \in oldK \cap newK :
                     Compared(LastRow(old, k)) = Compared(LastRow(all_rows, k))}
        IN  /\ A = newK \ oldK
            /\ R = oldK \ newK
            /\ C \cup U = oldK \cap newK
            /\ A \cap R = {} /\ A \cap C = {} /\ A \cap U = {}
            /\ R \cap C = {} /\ R \cap U = {} /\ C \cap U = {}
            /\ A \cup R \cup C \cup U = oldK \cup newK
            /\ \A p \in changed : p[1].nrc = p[2].nrc
            /\ Cardinality(added) = Cardinality(A)
            /\ Cardinality(removed) = Cardinality(R)
            /\ Cardinality(changed) = Cardinality(C)

\* a diff with an added, a changed and a duplicated key at once
C5_Witness ==
    /\ pc = "save_state"
    /\ added # {}
    /\ changed # {}
    /\ Len(GetRows(old_state)) > Cardinality(KeysOf(GetRows(old_state)))

\* C6 (as claimed): a common key is in changed iff the parsed open-seat count,
\* the time, the location or the instructor differs.
C6_ChangedIffParsedDiffers ==
    pc = "save_state" =>
        LET old == GetRows(old_state)
        IN  \A k \in KeysOf(old) \cap KeysOf(all_rows) :
                (\E p \in changed : p[2].nrc = k)
                <=> \/ parse_open_seats(LastRow(old, k).seats)
                          # parse_open_seats(LastRow(all_rows, k).seats)
                    \/ LastRow(old, k).time # LastRow(all_rows, k).time
                    \/ LastRow(old, k).loc # LastRow(all_rows, k).loc
                    \/ LastRow(old, k).instr # LastRow(all_rows, k).instr

\* C6 (amended): a common key is in changed iff the raw seats text, the time,
\* the location or the instructor differs.
C6_ChangedIffTextDiffers ==
    pc = "save_state" =>
        LET old == GetRows(old_state)
        IN  \A k \in KeysOf(old) \cap KeysOf(all_rows) :
                (\E p \in changed : p[1].nrc = k /\ p[2].nrc = k)
                <=> \/ LastRow(old, k).seats # LastRow(all_rows, k).seats
                    \/ LastRow(old, k).time # LastRow(all_rows, k).time
                    \/ LastRow(old, k).loc # LastRow(all_rows, k).loc
                    \/ LastRow(old, k).instr # LastRow(all_rows, k).instr

\* a pair in changed whose seats text differs only in the total
C6_Witness ==
    /\ pc = "save_state"
    /\ \E p \in changed :
          /\ p[1].seats # p[2].seats
          /\ parse_open_seats(p[1].seats) = parse_open_seats(p[2].seats)
          /\ parse_open_seats(p[1].seats) # None
          /\ p[1].time = p[2].time
          /\ p[1].loc = p[2].loc
          /\ p[1].instr = p[2].instr

\* C7: a run whose send failed does not fail, and when it completes the store
\* holds the snapshot it would hold had the send succeeded.
C7_NotifierFailureNonFatal ==
    tg_result = "failed" =>
        /\ pc # "failed"
        /\ exit_status \in {"running", "ok"}
        /\ new_state = MainResult(storeBefore, metaBefore, source, now, "ok").new_state
        /\ pc = "done" => exit_status = "ok" /\ stateFile = JsonFile(new_state)

\* a completed run with collected rows whose send failed
C7_Witness ==
    /\ pc = "done"
    /\ tg_result = "failed"
    /\ all_rows # << >>
    /\ stateFile = JsonFile(new_state)

\* C8 (as claimed): a state file that is absent or cannot be read as the
\* expected structure is treated as the default and the run is not fatal.
C8_CorruptStateNeverFatal ==
    (pc # "idle" /\ source.kind = "rows") =>
        /\ pc # "failed"
        /\ (storeBefore.kind # "json" \/ storeBefore.val.type # "object")
              => GetRows(old_state) = << >>
        /\ (metaBefore.kind # "json" \/ metaBefore.val.type # "object")
              => GetLastPing(metaLoaded) = 0

\* C9: a completed run leaves its snapshot in the store whether or not it
\* notified, and a run diffs against what the preceding completed run stored.
C9_SnapshotAlwaysPersisted ==
    /\ pc = "done" =>
          /\ stateFile = JsonFile(new_state)
          /\ lastSaved = << new_state >>
          /\ new_state.rows = all_rows
          /\ [i \in 1..Len(all_rows) |-> Unmark(all_rows[i])] = FilterRows(source.rows)
    /\ (pc \in {"save_state", "write_state", "save_meta", "write_meta"}
          /\ lastSaved # << >>)
          => old_state = lastSaved[1]

\* a completed run that sent nothing and still replaced a stored snapshot
C9_Witness ==
    /\ pc = "done"
    /\ ~should_notify
    /\ storeBefore.kind = "json"
    /\ all_rows # << >>
    /\ stateFile = JsonFile(new_state)
    /\ stateFile # storeBefore

\* C10 (as claimed): while a valid snapshot is being replaced, a load by
\* another process, or a load after the saving process was killed, yields the
\* complete previous or the complete new snapshot.
C10_AtomicSave ==
    (/\ storeBefore.kind = "json"
     /\ storeBefore.val.type = "object"
     /\ storeBefore.val.has_rows)
    => /\ observed # << >> => observed[1] \in {storeBefore.val, new_state}
       /\ pc = "killed" =>
             load_json(stateFile, DefaultState) \in {storeBefore.val, new_state}

\* C11 (as claimed): in each query group the rows are listed by open_now
\* descending with every row whose open_now is null after every row whose
\* open_now is an integer (0 included), ties by key ascending, and the listing
\* is the same for every order in which the same rows arrive.
C11_DisplayOrdering ==
    pc = "save_state" =>
        /\ \A g \in 1..Len(message.groups) :
              LET rs == message.groups[g].rows_sorted
              IN  \A i, j \in 1..Len(rs) :
                     i < j =>
                        /\ rs[i].open_now = None => rs[j].open_now = None
                        /\ (rs[i].open_now # None /\ rs[j].open_now # None)
                              => rs[i].open_now[1] >= rs[j].open_now[1]
                        /\ rs[i].open_now = rs[j].open_now
                              => ~StrLess(rs[j].nrc, rs[i].nrc)
        /\ \A p \in PermsOf(all_rows) :
              \A g \in 1..Len(message.groups) :
                 Sorted(QueryGroup(p, message.groups[g].qkey))
                    = message.groups[g].rows_sorted

\* the values of a row the Row Source is compared by in C12
SourceValues(r) == << r.nrc, r.seats, r.time, r.loc, r.instr >>

\* the second run got the rows the first run stored (duplicates and empty
\* keys included, in the same order)
SameRowsAsStored ==
    /\ lastSaved # << >>
    /\ Len(lastSaved[1].rows) = Len(FilterRows(source.rows))
    /\ \A i \in 1..Len(lastSaved[1].rows) :
          SourceValues(lastSaved[1].rows[i])
             = SourceValues(FilterRows(source.rows)[i])

\* C12: when a completed run gets the same rows (key, seats, time, location,
\* instructor) as the completed run before it, it computes added, removed and
\* changed all empty, any_change is false, and it sends a message exactly when
\* the no-change interval has elapsed since the last ping; the marks the first
\* run stored in the rows make no difference.
C12_RepeatRunQuiescence ==
    (pc = "save_state" /\ SameRowsAsStored) =>
        /\ added = {}
        /\ removed = {}
        /\ changed = {}
        /\ ~any_change
        /\ should_notify
              = (now - GetLastPing(metaLoaded) >= NOCHANGE_NOTIFY_INTERVAL_SEC)
        /\ (tg_result # "not_called") = should_notify

\* a second run over the same rows, with a key yielded twice, against stored
\* rows that carry the first run's marks, one interval after the last ping
C12_Witness ==
    /\ pc = "save_state"
    /\ SameRowsAsStored
    /\ \E i, j \in 1..Len(source.rows) :
          i < j /\ source.rows[i].nrc = source.rows[j].nrc
                /\ source.rows[i].nrc # << >>
    /\ \E i \in 1..Len(GetRows(old_state)) :
          /\ GetRows(old_state)[i].marked
          /\ GetRows(old_state)[i].open_now # None
    /\ ~any_change
    /\ should_notify
    /\ tg_result = "sent"

====
